---- MODULE Spec2Model ----
(***************************************************************************)
(* Things service (things/service.go) over the in-memory channel and thing *)
(* repositories (things/mocks).  Strings are sequences of one-character    *)
(* strings, so that key composition, prefix/suffix scans and the           *)
(* lexicographic id range of All are computed the way the Go code does.    *)
(***************************************************************************)
EXTENDS Integers, Sequences, FiniteSets, TLC

VARIABLES counter, things, channels, created, linked, res, steps, procs, mu

vars == <<counter, things, channels, created, linked, res, steps, procs, mu>>

(* ------------------------------ bounds --------------------------------- *)

\* Number of store-changing calls in one run of Spec.
MaxSteps == 3

\* Number of store-changing calls in one run of LinkSpec.
MaxLinkSteps == 6

\* Number of creates before the concurrent calls of ConcSpec start.
MaxSetupSteps == 3

\* Largest offset / limit a List call is issued with.
MaxPage == 2

(* ------------------------------ strings -------------------------------- *)

Digits == <<"0", "1", "2", "3", "4", "5", "6", "7", "8", "9">>

\* Byte value of a character (Go compares strings bytewise).
CharCode(c) ==
    CASE c = "-" -> 45
      [] c = "0" -> 48 [] c = "1" -> 49 [] c = "2" -> 50 [] c = "3" -> 51
      [] c = "4" -> 52 [] c = "5" -> 53 [] c = "6" -> 54 [] c = "7" -> 55
      [] c = "8" -> 56 [] c = "9" -> 57
      [] c = "a" -> 97 [] c = "b" -> 98

RECURSIVE StrLess(_, _)
\* s < t for Go strings.
StrLess(s, t) ==
    IF t = <<>> THEN FALSE
    ELSE IF s = <<>> THEN TRUE
    ELSE IF Head(s) = Head(t) THEN StrLess(Tail(s), Tail(t))
    ELSE CharCode(Head(s)) < CharCode(Head(t))

HasPrefix(s, p) == Len(p) <= Len(s) /\ SubSeq(s, 1, Len(p)) = p

HasSuffix(s, p) == Len(p) <= Len(s) /\ SubSeq(s, Len(s) - Len(p) + 1, Len(s)) = p

RECURSIVE DecDigits(_)
\* %d of a non-negative integer.
DecDigits(n) ==
    IF n < 10 THEN <<Digits[n + 1]>>
    ELSE Append(DecDigits(n \div 10), Digits[(n % 10) + 1])

RECURSIVE ZeroPad(_, _)
\* Left-pads with zeros up to width w; longer strings are left alone.
ZeroPad(s, w) == IF Len(s) >= w THEN s ELSE ZeroPad(<<"0">> \o s, w)

\* Width of the %012d verb.
IdWidth == 12

\* Prefix of every generated identifier.
startID == <<>>

\* fmt.Sprintf("%s%012d", startID, n)
FormatID(n) == startID \o ZeroPad(DecDigits(n), IdWidth)

\* fmt.Sprintf("%s-%s", owner, id)
key(owner, id) == owner \o <<"-">> \o id

(* ------------------------------ errors --------------------------------- *)

Nil == "nil"
ErrUnauthorizedAccess == "ErrUnauthorizedAccess"
ErrNotFound == "ErrNotFound"

(* ------------------------------ entities ------------------------------- *)

Empty == <<>>

\* Thing{} : the zero value of the struct.
ZeroThing == [ID |-> Empty, Owner |-> Empty, Key |-> Empty]

\* Channel{}
ZeroChannel == [ID |-> Empty, Owner |-> Empty, Things |-> <<>>]

(* ------------------------------ Auth Oracle ---------------------------- *)

OwnerA == <<"a">>
OwnerB == <<"a", "-", "b">>
Owners == {OwnerA, OwnerB}

Tokens == {"tokA", "tokB", "bad"}

OracleModes == {"up", "error", "timeout"}

\* users.Identify under the one-second context: the identity of a valid
\* token when the oracle answers in time, an error otherwise.
Identify(tok, mode) ==
    IF mode = "up" /\ tok = "tokA" THEN [err |-> Nil, value |-> OwnerA]
    ELSE IF mode = "up" /\ tok = "tokB" THEN [err |-> Nil, value |-> OwnerB]
    ELSE [err |-> "identify failed", value |-> Empty]

(* ------------------------------ stores --------------------------------- *)

\* m[k] = v on a Go map.
MapPut(m, k, v) == [x \in DOMAIN m \cup {k} |-> IF x = k THEN v ELSE m[x]]

\* delete(m, k)
MapDelete(m, k) == [x \in DOMAIN m \ {k} |-> m[x]]

EmptyMap == [x \in {} |-> ZeroChannel]

\* Save: stores the resource under key(owner, id).
RepoSave(m, r) == MapPut(m, key(r.Owner, r.ID), r)

\* Update: replaces the record under key(owner, id), ErrNotFound on a miss.
RepoUpdate(m, r) ==
    LET dbKey == key(r.Owner, r.ID) IN
    IF dbKey \notin DOMAIN m
    THEN [err |-> ErrNotFound, m |-> m]
    ELSE [err |-> Nil, m |-> MapPut(m, dbKey, r)]

\* One: the record under key(owner, id), or the zero value and ErrNotFound.
RepoOne(m, zero, owner, id) ==
    IF key(owner, id) \in DOMAIN m
    THEN [err |-> Nil, val |-> m[key(owner, id)]]
    ELSE [err |-> ErrNotFound, val |-> zero]

\* Remove: deletes the key, never fails.
RepoRemove(m, owner, id) == [err |-> Nil, m |-> MapDelete(m, key(owner, id))]

\* The keys whose records the range scan of All selects.
AllKeys(m, owner, offset, limit) ==
    LET prefix == owner \o <<"-">>
        first  == FormatID(offset + 1)
        last   == FormatID(offset + limit + 1)
    IN  IF offset < 0 \/ limit <= 0 THEN {}
        ELSE {k \in DOMAIN m :
                /\ HasPrefix(k, prefix)
                /\ ~StrLess(m[k].ID, first)
                /\ StrLess(m[k].ID, last)}

\* The orders sort.SliceStable can leave the selected keys in: ascending by
\* ID, records with equal IDs in the (arbitrary) map iteration order.
AllOrders(m, owner, offset, limit) ==
    LET ks == AllKeys(m, owner, offset, limit)
        n  == Cardinality(ks)
    IN  {s \in [1..n -> ks] :
            /\ \A i, j \in 1..n : i # j => s[i] # s[j]
            /\ \A i, j \in 1..n : i < j => ~StrLess(m[s[j]].ID, m[s[i]].ID)}

(* ------------------------- channel connectivity ------------------------ *)

\* channelRepositoryMock.Connect, run without interference: One, things.One,
\* append, Update.
RepoConnect(chs, ths, owner, chanID, thingID) ==
    LET c == RepoOne(chs, ZeroChannel, owner, chanID)
        t == RepoOne(ths, ZeroThing, owner, thingID)
    IN  IF c.err # Nil THEN [err |-> c.err, m |-> chs]
        ELSE IF t.err # Nil THEN [err |-> t.err, m |-> chs]
        ELSE RepoUpdate(chs, [c.val EXCEPT !.Things = Append(@, t.val)])

\* make([]things.Thing, n): n zero values.
MakeThings(n) == [i \in 1..n |-> ZeroThing]

\* The slice Disconnect builds: make(len-1) followed by the appended
\* things whose ID differs from thingID.
Connected(list, thingID) ==
    MakeThings(Len(list) - 1) \o SelectSeq(list, LAMBDA t : t.ID # thingID)

\* channelRepositoryMock.Disconnect, run without interference.
RepoDisconnect(chs, owner, chanID, thingID) ==
    LET c == RepoOne(chs, ZeroChannel, owner, chanID) IN
    IF c.err # Nil THEN [err |-> c.err, m |-> chs]
    ELSE IF \E i \in 1..Len(c.val.Things) : c.val.Things[i].ID = thingID
    THEN RepoUpdate(chs, [c.val EXCEPT !.Things = Connected(@, thingID)])
    ELSE [err |-> ErrNotFound, m |-> chs]

\* The inner loop of HasThing over one channel's list: the first thing
\* whose key matches.
ScanThings(list, k) ==
    IF \E i \in 1..Len(list) : list[i].Key = k
    THEN LET i == CHOOSE i \in 1..Len(list) :
                    /\ list[i].Key = k
                    /\ \A j \in 1..(i - 1) : list[j].Key # k
         IN  [err |-> Nil, id |-> list[i].ID]
    ELSE [err |-> ErrNotFound, id |-> Empty]

\* channelRepositoryMock.HasThing: the map is ranged over in arbitrary
\* order and the scan stops at the first key with the suffix, so every
\* matching key is a possible outcome.
HasThing(chs, chanID, k) ==
    LET suffix  == <<"-">> \o chanID
        matches == {x \in DOMAIN chs : HasSuffix(x, suffix)}
    IN  IF matches = {} THEN {[err |-> ErrNotFound, id |-> Empty]}
        ELSE {ScanThings(chs[x].Things, k) : x \in matches}

\* thingsService.CanAccess: every HasThing error becomes
\* ErrUnauthorizedAccess.
CanAccessOf(r) ==
    IF r.err # Nil THEN [err |-> ErrUnauthorizedAccess, id |-> Empty]
    ELSE [err |-> Nil, id |-> r.id]

CanAccessResults(chs, chanID, k) == {CanAccessOf(r) : r \in HasThing(chs, chanID, k)}

(* ------------------------- identity generator -------------------------- *)

\* idp.ID(): the n-th identifier handed out.
IdpID(n) == FormatID(n)

(* ------------------------------ service -------------------------------- *)

\* A handler that carries on after a failed Identify.
AuthorizedAlways(auth) == TRUE

\* `if err != nil { return ErrUnauthorizedAccess }` after Identify.
Authorized(auth) == auth.err = Nil

\* AddThing's stamping of the payload.
StampThing(thing, owner, id, k) == [thing EXCEPT !.ID = id, !.Owner = owner, !.Key = k]

\* A CreateChannel that keeps the owner the payload carries.
StampChannelKeepOwner(channel, owner, id) == [channel EXCEPT !.ID = id]

\* CreateChannel's stamping of the payload.
StampChannel(channel, owner, id) == [channel EXCEPT !.ID = id, !.Owner = owner]

\* The record of the last call: the oracle's answer, the calls the handler
\* made, what it returned (outKeys: the map keys the returned records were
\* read from) and, for a Connect or Disconnect that succeeded, the channel
\* and thing identifiers it was called with.
Result(op, auth) ==
    [op |-> op,
     auth |-> IF auth.err = Nil THEN "ok" ELSE "failed",
     owner |-> auth.value,
     err |-> ErrUnauthorizedAccess,
     calls |-> <<"Identify">>,
     chanID |-> Empty, thingID |-> Empty,
     outId |-> Empty, outThings |-> <<>>, outChans |-> <<>>, outKeys |-> <<>>]

NoAuth == [err |-> Nil, value |-> Empty]

NoCall == [Result("none", NoAuth) EXCEPT !.auth = "none", !.err = Nil, !.calls = <<>>]

\* The handler returns ErrUnauthorizedAccess before touching a store.
Denied(op, auth) ==
    /\ res' = Result(op, auth)
    /\ UNCHANGED <<counter, things, channels, created>>

(* ------------------------------ inputs --------------------------------- *)

\* Credential and oracle behaviour of one call: each valid token, a bad
\* token, an oracle error and a timeout.
AuthInputs ==
    {<<"tokA", "up">>, <<"tokB", "up">>, <<"bad", "up">>,
     <<"tokA", "error">>, <<"tokB", "timeout">>}

Range(f) == {f[x] : x \in DOMAIN f}

\* The identifier an owner has to pass to reach map key k: what follows the
\* owner and the dash.
IdUnder(owner, k) == SubSeq(k, Len(owner) + 2, Len(k))

\* Identifiers a caller passes for a resource of store m: those under
\* which some owner finds a record, and the empty string.
IdInputs(m) ==
    {IdUnder(o[1], o[2]) : o \in {o \in Owners \X DOMAIN m : HasPrefix(o[2], o[1] \o <<"-">>)}}
        \cup {Empty}

\* Device keys a caller passes: the empty key and the keys in use.
KeyInputs == {Empty} \cup {t.Key : t \in Range(things)}

\* Connected lists a channel payload carries: none, or one entry that
\* names the key of a stored thing and nothing else.
ThingListInputs == {<<>>} \cup {<<[ZeroThing EXCEPT !.Key = t.Key]>> : t \in Range(things)}

\* Payloads of a create: blank, or with an id, owner and key of the caller's
\* choosing.
ThingPayloads == {ZeroThing, [ID |-> IdpID(1), Owner |-> OwnerB, Key |-> IdpID(1)]}

ChannelPayloads == {ZeroChannel, [ID |-> IdpID(1), Owner |-> OwnerB, Things |-> <<>>]}

Offsets == -1..(MaxPage - 1)

Limits == 0..MaxPage

\* The pages a caller asks for: one with a negative offset, one with a zero
\* limit, and every page inside the bounds.
PageInputs ==
    {<<-1, 1>>, <<0, 0>>} \cup {p \in Offsets \X Limits : p[1] >= 0 /\ p[2] > 0}

(* ------------------------------ handlers ------------------------------- *)

AddThing(tok, mode) ==
    LET auth == Identify(tok, mode) IN
    IF ~Authorized(auth) THEN Denied("AddThing", auth)
    ELSE \E payload \in ThingPayloads :
         /\ LET thing == StampThing(payload, auth.value, IdpID(counter + 1), IdpID(counter + 2)) IN
            /\ things' = RepoSave(things, thing)
            /\ created' = Append(created, [kind |-> "thing", owner |-> auth.value,
                                           id |-> thing.ID, key |-> thing.Key])
            /\ res' = [Result("AddThing", auth) EXCEPT
                         !.err = Nil, !.calls = <<"Identify", "things.Save">>,
                         !.outId = thing.ID, !.outThings = <<thing>>,
                         !.outKeys = <<key(thing.Owner, thing.ID)>>]
         /\ counter' = counter + 2
         /\ UNCHANGED channels

UpdateThing(tok, mode) ==
    LET auth == Identify(tok, mode) IN
    IF ~Authorized(auth) THEN Denied("UpdateThing", auth)
    ELSE \E id \in IdInputs(things), k \in KeyInputs :
         LET thing == [ID |-> id, Owner |-> OwnerB, Key |-> k]
             out   == RepoUpdate(things, [thing EXCEPT !.Owner = auth.value])
         IN  /\ things' = out.m
             /\ res' = [Result("UpdateThing", auth) EXCEPT
                          !.err = out.err, !.calls = <<"Identify", "things.Update">>,
                          !.outId = Empty]
             /\ UNCHANGED <<counter, channels, created>>

ViewThing(tok, mode) ==
    LET auth == Identify(tok, mode) IN
    IF ~Authorized(auth) THEN Denied("ViewThing", auth)
    ELSE \E id \in IdInputs(things) :
         LET out == RepoOne(things, ZeroThing, auth.value, id) IN
         /\ res' = [Result("ViewThing", auth) EXCEPT
                      !.err = out.err, !.calls = <<"Identify", "things.One">>,
                      !.outThings = <<out.val>>,
                      !.outKeys = IF out.err = Nil THEN <<key(auth.value, id)>> ELSE <<>>]
         /\ UNCHANGED <<counter, things, channels, created>>

ListThings(tok, mode) ==
    LET auth == Identify(tok, mode) IN
    IF ~Authorized(auth) THEN Denied("ListThings", auth)
    ELSE \E page \in PageInputs :
         \E s \in AllOrders(things, auth.value, page[1], page[2]) :
         /\ res' = [Result("ListThings", auth) EXCEPT
                      !.err = Nil, !.calls = <<"Identify", "things.All">>,
                      !.outThings = [i \in DOMAIN s |-> things[s[i]]], !.outKeys = s]
         /\ UNCHANGED <<counter, things, channels, created>>

RemoveThing(tok, mode) ==
    LET auth == Identify(tok, mode) IN
    IF ~Authorized(auth) THEN Denied("RemoveThing", auth)
    ELSE \E id \in IdInputs(things) :
         LET out == RepoRemove(things, auth.value, id) IN
         /\ things' = out.m
         /\ res' = [Result("RemoveThing", auth) EXCEPT
                      !.err = out.err, !.calls = <<"Identify", "things.Remove">>]
         /\ UNCHANGED <<counter, channels, created>>

CreateChannel(tok, mode) ==
    LET auth == Identify(tok, mode) IN
    IF ~Authorized(auth) THEN Denied("CreateChannel", auth)
    ELSE \E payload \in ChannelPayloads :
         /\ LET channel == StampChannel(payload, auth.value, IdpID(counter + 1)) IN
            /\ channels' = RepoSave(channels, channel)
            /\ created' = Append(created, [kind |-> "channel", owner |-> auth.value,
                                           id |-> channel.ID, key |-> Empty])
            /\ res' = [Result("CreateChannel", auth) EXCEPT
                         !.err = Nil, !.calls = <<"Identify", "channels.Save">>,
                         !.outId = channel.ID, !.outChans = <<channel>>,
                         !.outKeys = <<key(channel.Owner, channel.ID)>>]
         /\ counter' = counter + 1
         /\ UNCHANGED things

UpdateChannel(tok, mode) ==
    LET auth == Identify(tok, mode) IN
    IF ~Authorized(auth) THEN Denied("UpdateChannel", auth)
    ELSE \E id \in IdInputs(channels), l \in ThingListInputs :
         LET channel == [ID |-> id, Owner |-> OwnerB, Things |-> l]
             out     == RepoUpdate(channels, [channel EXCEPT !.Owner = auth.value])
         IN  /\ channels' = out.m
             /\ res' = [Result("UpdateChannel", auth) EXCEPT
                          !.err = out.err, !.calls = <<"Identify", "channels.Update">>]
             /\ UNCHANGED <<counter, things, created>>

ViewChannel(tok, mode) ==
    LET auth == Identify(tok, mode) IN
    IF ~Authorized(auth) THEN Denied("ViewChannel", auth)
    ELSE \E id \in IdInputs(channels) :
         LET out == RepoOne(channels, ZeroChannel, auth.value, id) IN
         /\ res' = [Result("ViewChannel", auth) EXCEPT
                      !.err = out.err, !.calls = <<"Identify", "channels.One">>,
                      !.outChans = <<out.val>>,
                      !.outKeys = IF out.err = Nil THEN <<key(auth.value, id)>> ELSE <<>>]
         /\ UNCHANGED <<counter, things, channels, created>>

ListChannels(tok, mode) ==
    LET auth == Identify(tok, mode) IN
    IF ~Authorized(auth) THEN Denied("ListChannels", auth)
    ELSE \E page \in PageInputs :
         \E s \in AllOrders(channels, auth.value, page[1], page[2]) :
         /\ res' = [Result("ListChannels", auth) EXCEPT
                      !.err = Nil, !.calls = <<"Identify", "channels.All">>,
                      !.outChans = [i \in DOMAIN s |-> channels[s[i]]], !.outKeys = s]
         /\ UNCHANGED <<counter, things, channels, created>>

RemoveChannel(tok, mode) ==
    LET auth == Identify(tok, mode) IN
    IF ~Authorized(auth) THEN Denied("RemoveChannel", auth)
    ELSE \E id \in IdInputs(channels) :
         LET out == RepoRemove(channels, auth.value, id) IN
         /\ channels' = out.m
         /\ res' = [Result("RemoveChannel", auth) EXCEPT
                      !.err = out.err, !.calls = <<"Identify", "channels.Remove">>]
         /\ UNCHANGED <<counter, things, created>>

Connect(tok, mode) ==
    LET auth == Identify(tok, mode) IN
    IF ~Authorized(auth) THEN Denied("Connect", auth)
    ELSE \E chanID \in IdInputs(channels), thingID \in IdInputs(things) :
         LET out == RepoConnect(channels, things, auth.value, chanID, thingID) IN
         /\ channels' = out.m
         /\ res' = [Result("Connect", auth) EXCEPT
                      !.err = out.err, !.calls = <<"Identify", "channels.Connect">>,
                      !.chanID = IF out.err = Nil THEN chanID ELSE Empty,
                      !.thingID = IF out.err = Nil THEN thingID ELSE Empty]
         /\ UNCHANGED <<counter, things, created>>

Disconnect(tok, mode) ==
    LET auth == Identify(tok, mode) IN
    IF ~Authorized(auth) THEN Denied("Disconnect", auth)
    ELSE \E chanID \in IdInputs(channels), thingID \in IdInputs(things) :
         LET out == RepoDisconnect(channels, auth.value, chanID, thingID) IN
         /\ channels' = out.m
         /\ res' = [Result("Disconnect", auth) EXCEPT
                      !.err = out.err, !.calls = <<"Identify", "channels.Disconnect">>,
                      !.chanID = IF out.err = Nil THEN chanID ELSE Empty,
                      !.thingID = IF out.err = Nil THEN thingID ELSE Empty]
         /\ UNCHANGED <<counter, things, created>>

\* A CanAccess that asks the oracle about the device key first.
CanAccessIdentifies(k, chanID) ==
    \E mode \in OracleModes :
        LET auth == Identify("tokA", mode) IN
        IF ~Authorized(auth) THEN Denied("CanAccess", auth)
        ELSE \E r \in CanAccessResults(channels, chanID, k) :
             /\ res' = [Result("CanAccess", auth) EXCEPT
                          !.err = r.err, !.calls = <<"Identify", "channels.HasThing">>,
                          !.outId = r.id]
             /\ UNCHANGED <<counter, things, channels, created>>

\* thingsService.CanAccess: HasThing and nothing else.
CanAccess(k, chanID) ==
    \E r \in CanAccessResults(channels, chanID, k) :
        /\ res' = [Result("CanAccess", NoAuth) EXCEPT
                     !.auth = "none", !.err = r.err, !.calls = <<"channels.HasThing">>,
                     !.outId = r.id]
        /\ UNCHANGED <<counter, things, channels, created>>

(* --------------------------- specification ----------------------------- *)

Procs == {1, 2}

Idle == [pc |-> "idle", owner |-> Empty, chanID |-> Empty, thingID |-> Empty,
         channel |-> ZeroChannel, err |-> Nil]

Init ==
    /\ counter = 0
    /\ things = EmptyMap
    /\ channels = EmptyMap
    /\ created = <<>>
    /\ linked = {}
    /\ res = NoCall
    /\ steps = 0
    /\ procs = [p \in Procs |-> Idle]
    /\ mu = 0

\* A call that changes the generator or a store uses up one of the n steps
\* of the run.
Budget(n) ==
    IF <<counter', things', channels'>> # <<counter, things, channels>>
    THEN steps < n /\ steps' = steps + 1
    ELSE steps' = steps

\* History of the connectivity relation: the <<channel key, thing id, thing
\* key>> triples a successful Connect added and no successful Disconnect of
\* that channel and thing id has removed since.
Track ==
    linked' =
        IF res'.op = "Connect" /\ res'.err = Nil
        THEN linked \cup {<<key(res'.owner, res'.chanID), res'.thingID,
                            things[key(res'.owner, res'.thingID)].Key>>}
        ELSE IF res'.op = "Disconnect" /\ res'.err = Nil
        THEN {l \in linked : ~(l[1] = key(res'.owner, res'.chanID) /\ l[2] = res'.thingID)}
        ELSE linked

\* The calls that write to a store or draw from the generator.
Writers ==
    {"AddThing", "UpdateThing", "RemoveThing", "CreateChannel", "UpdateChannel",
     "RemoveChannel", "Connect", "Disconnect"}

\* A run is followed past a call only if the call was a writer that
\* succeeded.  Any other call leaves the generator and the stores as it found
\* them, so the calls after it are the calls made in its place, which the
\* run without it makes.
Continues == res.op = "none" \/ (res.op \in Writers /\ res.err = Nil)

Serial == Budget(MaxSteps) /\ Track /\ UNCHANGED <<procs, mu>>

Next ==
    \/ \E a \in AuthInputs : Continues /\ AddThing(a[1], a[2]) /\ Serial
    \/ \E a \in AuthInputs : Continues /\ UpdateThing(a[1], a[2]) /\ Serial
    \/ \E a \in AuthInputs : Continues /\ ViewThing(a[1], a[2]) /\ Serial
    \/ \E a \in AuthInputs : Continues /\ ListThings(a[1], a[2]) /\ Serial
    \/ \E a \in AuthInputs : Continues /\ RemoveThing(a[1], a[2]) /\ Serial
    \/ \E a \in AuthInputs : Continues /\ CreateChannel(a[1], a[2]) /\ Serial
    \/ \E a \in AuthInputs : Continues /\ UpdateChannel(a[1], a[2]) /\ Serial
    \/ \E a \in AuthInputs : Continues /\ ViewChannel(a[1], a[2]) /\ Serial
    \/ \E a \in AuthInputs : Continues /\ ListChannels(a[1], a[2]) /\ Serial
    \/ \E a \in AuthInputs : Continues /\ RemoveChannel(a[1], a[2]) /\ Serial
    \/ \E a \in AuthInputs : Continues /\ Connect(a[1], a[2]) /\ Serial
    \/ \E a \in AuthInputs : Continues /\ Disconnect(a[1], a[2]) /\ Serial
    \/ Continues /\ \E k \in KeyInputs, c \in IdInputs(channels) : CanAccess(k, c) /\ Serial

Spec == Init /\ [][Next]_vars

\* Longer runs of the calls that create and list resources and build and
\* probe the connectivity relation.
LinkSerial == Budget(MaxLinkSteps) /\ Track /\ UNCHANGED <<procs, mu>>

\* LinkSpec follows one owner: a valid and a bad credential.
LinkAuthInputs == {<<"tokA", "up">>, <<"bad", "up">>}

LinkNext ==
    \/ \E a \in LinkAuthInputs : Continues /\ AddThing(a[1], a[2]) /\ LinkSerial
    \/ \E a \in LinkAuthInputs : Continues /\ UpdateThing(a[1], a[2]) /\ LinkSerial
    \/ \E a \in LinkAuthInputs : Continues /\ CreateChannel(a[1], a[2]) /\ LinkSerial
    \/ \E a \in LinkAuthInputs : Continues /\ ListChannels(a[1], a[2]) /\ LinkSerial
    \/ \E a \in LinkAuthInputs : Continues /\ Connect(a[1], a[2]) /\ LinkSerial
    \/ \E a \in LinkAuthInputs : Continues /\ Disconnect(a[1], a[2]) /\ LinkSerial
    \/ Continues /\ \E k \in KeyInputs, c \in IdInputs(channels) : CanAccess(k, c) /\ LinkSerial

LinkSpec == Init /\ [][LinkNext]_vars

\* The runs of one owner that also update channels.
EditNext ==
    \/ \E a \in LinkAuthInputs : Continues /\ AddThing(a[1], a[2]) /\ LinkSerial
    \/ \E a \in LinkAuthInputs : Continues /\ CreateChannel(a[1], a[2]) /\ LinkSerial
    \/ \E a \in LinkAuthInputs : Continues /\ UpdateChannel(a[1], a[2]) /\ LinkSerial
    \/ \E a \in LinkAuthInputs : Continues /\ Connect(a[1], a[2]) /\ LinkSerial
    \/ \E a \in LinkAuthInputs : Continues /\ Disconnect(a[1], a[2]) /\ LinkSerial
    \/ Continues /\ \E k \in KeyInputs, c \in IdInputs(channels) : CanAccess(k, c) /\ LinkSerial

EditSpec == Init /\ [][EditNext]_vars

\* The runs of one owner that also remove things.
RevokeNext ==
    \/ \E a \in LinkAuthInputs : Continues /\ AddThing(a[1], a[2]) /\ LinkSerial
    \/ \E a \in LinkAuthInputs : Continues /\ RemoveThing(a[1], a[2]) /\ LinkSerial
    \/ \E a \in LinkAuthInputs : Continues /\ CreateChannel(a[1], a[2]) /\ LinkSerial
    \/ \E a \in LinkAuthInputs : Continues /\ Connect(a[1], a[2]) /\ LinkSerial
    \/ \E a \in LinkAuthInputs : Continues /\ Disconnect(a[1], a[2]) /\ LinkSerial
    \/ Continues /\ \E k \in KeyInputs, c \in IdInputs(channels) : CanAccess(k, c) /\ LinkSerial

RevokeSpec == Init /\ [][RevokeNext]_vars

(* ------------------- concurrent calls of Connect ----------------------- *)

\* Each process makes one Connect call on the shared repositories and runs
\* it statement by statement: One and things.One take no lock, Update
\* holds crm.mu around its check and write.  The lists the calls append to
\* are as long as their capacity (they were built by at most one append),
\* so every append allocates a new array and the copies share no storage.

AllIdle == \A p \in Procs : procs[p].pc = "idle"

Running == \A p \in Procs : procs[p].pc # "fatal"

Step(p, r) == procs' = [procs EXCEPT ![p] = r]

\* thingsService.Connect up to the call of channels.Connect.
ConnCall(p, tok, mode, chanID, thingID) ==
    LET auth == Identify(tok, mode) IN
    /\ Running /\ procs[p].pc = "idle"
    /\ DOMAIN channels # {} /\ DOMAIN things # {}
    /\ IF ~Authorized(auth)
       THEN Step(p, [Idle EXCEPT !.pc = "done", !.err = ErrUnauthorizedAccess])
       ELSE Step(p, [Idle EXCEPT !.pc = "one", !.owner = auth.value,
                                 !.chanID = chanID, !.thingID = thingID])
    /\ UNCHANGED <<counter, things, channels, created, linked, res, steps, mu>>

\* channel, err := crm.One(owner, chanID): an unlocked read of the map.
ConnOne(p) ==
    LET me == procs[p]
        c  == RepoOne(channels, ZeroChannel, me.owner, me.chanID)
    IN  /\ Running /\ me.pc = "one"
        /\ IF c.err # Nil
           THEN Step(p, [me EXCEPT !.pc = "done", !.err = c.err])
           ELSE Step(p, [me EXCEPT !.pc = "thing", !.channel = c.val])
        /\ UNCHANGED <<counter, things, channels, created, linked, res, steps, mu>>

\* The same read while another call is at a write of the map, Update's
\* assignment or Remove's delete: the Go runtime may stop the program
\* ("concurrent map read and map write").
ConnOneRace(p) ==
    /\ Running /\ procs[p].pc = "one"
    /\ \E q \in Procs \ {p} : procs[q].pc \in {"write", "delete"}
    /\ Step(p, [procs[p] EXCEPT !.pc = "fatal"])
    /\ UNCHANGED <<counter, things, channels, created, linked, res, steps, mu>>

\* thing, err := crm.things.One(owner, thingID), then the append.
ConnThing(p) ==
    LET me == procs[p]
        t  == RepoOne(things, ZeroThing, me.owner, me.thingID)
    IN  /\ Running /\ me.pc = "thing"
        /\ IF t.err # Nil
           THEN Step(p, [me EXCEPT !.pc = "done", !.err = t.err])
           ELSE Step(p, [me EXCEPT !.pc = "lock", !.channel.Things = Append(@, t.val)])
        /\ UNCHANGED <<counter, things, channels, created, linked, res, steps, mu>>

\* Update: crm.mu.Lock()
UpdLock(p) ==
    /\ Running /\ procs[p].pc = "lock" /\ mu = 0
    /\ mu' = p
    /\ Step(p, [procs[p] EXCEPT !.pc = "check"])
    /\ UNCHANGED <<counter, things, channels, created, linked, res, steps>>

\* Update: `if _, ok := crm.channels[dbKey]; !ok { return ErrNotFound }`,
\* a read of the map under the lock.
UpdCheck(p) ==
    LET me == procs[p] IN
    /\ Running /\ me.pc = "check" /\ mu = p
    /\ IF key(me.channel.Owner, me.channel.ID) \in DOMAIN channels
       THEN Step(p, [me EXCEPT !.pc = "write"])
       ELSE Step(p, [me EXCEPT !.pc = "unlock", !.err = ErrNotFound])
    /\ UNCHANGED <<counter, things, channels, created, linked, res, steps, mu>>

\* Update: crm.channels[dbKey] = channel, under the lock; the key is
\* written whether or not it is still in the map.
UpdWrite(p) ==
    LET me == procs[p] IN
    /\ Running /\ me.pc = "write" /\ mu = p
    /\ channels' = MapPut(channels, key(me.channel.Owner, me.channel.ID), me.channel)
    /\ Step(p, [me EXCEPT !.pc = "unlock", !.err = Nil])
    /\ UNCHANGED <<counter, things, created, linked, res, steps, mu>>

\* Update: the deferred crm.mu.Unlock(), and the return of Connect.
UpdUnlock(p) ==
    /\ Running /\ procs[p].pc = "unlock" /\ mu = p
    /\ mu' = 0
    /\ Step(p, [procs[p] EXCEPT !.pc = "done"])
    /\ UNCHANGED <<counter, things, channels, created, linked, res, steps>>

\* The creates that precede the concurrent calls.
Setup == AllIdle /\ Budget(MaxSetupSteps) /\ Track /\ UNCHANGED <<procs, mu>>

ConcNext ==
    \/ \E a \in LinkAuthInputs : AddThing(a[1], a[2]) /\ Setup
    \/ \E a \in LinkAuthInputs : CreateChannel(a[1], a[2]) /\ Setup
    \/ \E p \in Procs, a \in LinkAuthInputs, c \in IdInputs(channels), t \in IdInputs(things) :
          ConnCall(p, a[1], a[2], c, t)
    \/ \E p \in Procs : ConnOne(p)
    \/ \E p \in Procs : ConnOneRace(p)
    \/ \E p \in Procs : ConnThing(p)
    \/ \E p \in Procs : UpdLock(p)
    \/ \E p \in Procs : UpdCheck(p)
    \/ \E p \in Procs : UpdWrite(p)
    \/ \E p \in Procs : UpdUnlock(p)

ConcSpec == Init /\ [][ConcNext]_vars

(* ------------------- concurrent calls of Remove ------------------------ *)

\* thingsService.RemoveChannel up to the call of channels.Remove.
RemCall(p, tok, mode, chanID) ==
    LET auth == Identify(tok, mode) IN
    /\ Running /\ procs[p].pc = "idle"
    /\ DOMAIN channels # {} /\ DOMAIN things # {}
    /\ IF ~Authorized(auth)
       THEN Step(p, [Idle EXCEPT !.pc = "done", !.err = ErrUnauthorizedAccess])
       ELSE Step(p, [Idle EXCEPT !.pc = "delete", !.owner = auth.value, !.chanID = chanID])
    /\ UNCHANGED <<counter, things, channels, created, linked, res, steps, mu>>

\* Remove: delete(crm.channels, key(owner, id)) and the return of nil; the
\* lock is neither taken nor looked at.
RemDelete(p) ==
    LET me  == procs[p]
        out == RepoRemove(channels, me.owner, me.chanID)
    IN  /\ Running /\ me.pc = "delete"
        /\ channels' = out.m
        /\ Step(p, [me EXCEPT !.pc = "done", !.err = out.err])
        /\ UNCHANGED <<counter, things, created, linked, res, steps, mu>>

\* The same delete while another call is at an access of the map, One's or
\* Update's read, Update's assignment or another delete: the Go runtime may
\* stop the program ("concurrent map writes", "concurrent map read and map
\* write").
RemDeleteRace(p) ==
    /\ Running /\ procs[p].pc = "delete"
    /\ \E q \in Procs \ {p} : procs[q].pc \in {"one", "check", "write", "delete"}
    /\ Step(p, [procs[p] EXCEPT !.pc = "fatal"])
    /\ UNCHANGED <<counter, things, channels, created, linked, res, steps, mu>>

\* Concurrent calls of Connect and RemoveChannel on the shared store.
LockNext ==
    \/ \E a \in LinkAuthInputs : AddThing(a[1], a[2]) /\ Setup
    \/ \E a \in LinkAuthInputs : CreateChannel(a[1], a[2]) /\ Setup
    \/ \E p \in Procs, a \in LinkAuthInputs, c \in IdInputs(channels), t \in IdInputs(things) :
          ConnCall(p, a[1], a[2], c, t)
    \/ \E p \in Procs, a \in LinkAuthInputs, c \in IdInputs(channels) : RemCall(p, a[1], a[2], c)
    \/ \E p \in Procs : ConnOne(p)
    \/ \E p \in Procs : ConnOneRace(p)
    \/ \E p \in Procs : ConnThing(p)
    \/ \E p \in Procs : UpdLock(p)
    \/ \E p \in Procs : UpdCheck(p)
    \/ \E p \in Procs : UpdWrite(p)
    \/ \E p \in Procs : UpdUnlock(p)
    \/ \E p \in Procs : RemDelete(p)
    \/ \E p \in Procs : RemDeleteRace(p)

LockSpec == Init /\ [][LockNext]_vars

(* ------------------------------ history -------------------------------- *)

\* The owner whose create stored a resource of the kind under map key k.
Creator(kind, k) ==
    LET e == CHOOSE e \in Range(created) : e.kind = kind /\ key(e.owner, e.id) = k IN e.owner

\* The identifiers of the owner's resources of the kind, in creation order.
CreatedBy(kind, owner) ==
    LET es == SelectSeq(created, LAMBDA e : e.kind = kind /\ e.owner = owner)
    IN  [i \in DOMAIN es |-> es[i].id]

\* Every stored record, tagged with its store and map key.
Stored ==
    {<<"thing", k, things[k].ID>> : k \in DOMAIN things}
        \cup {<<"channel", k, channels[k].ID>> : k \in DOMAIN channels}

(* ------------------------------ claims --------------------------------- *)

\* C1: a create that succeeds returns and stores a resource whose owner is
\* the identity the oracle resolved and whose id is the one the generator
\* handed out for this call and for no earlier one, whatever the payload
\* carried; no two stored resources share an identifier.
C1_CreateStampsOwnerAndFreshId ==
    /\ (res.op = "AddThing" /\ res.err = Nil) =>
          LET t == res.outThings[1] IN
          /\ res.auth = "ok" /\ t.Owner = res.owner
          /\ t.ID = IdpID(counter - 1)
          /\ \A i \in 1..(Len(created) - 1) : created[i].id # t.ID
          /\ key(t.Owner, t.ID) \in DOMAIN things /\ things[key(t.Owner, t.ID)] = t
    /\ (res.op = "CreateChannel" /\ res.err = Nil) =>
          LET c == res.outChans[1] IN
          /\ res.auth = "ok" /\ c.Owner = res.owner
          /\ c.ID = IdpID(counter)
          /\ \A i \in 1..(Len(created) - 1) : created[i].id # c.ID
          /\ key(c.Owner, c.ID) \in DOMAIN channels /\ channels[key(c.Owner, c.ID)] = c
    /\ \A x, y \in Stored : x[3] = y[3] => x = y

\* A second channel was just created while an earlier resource of another
\* owner is still stored.
C1_Witness ==
    /\ res.op = "CreateChannel" /\ res.err = Nil
    /\ \E x \in Stored : x[2] # key(res.owner, res.outId) /\ ~HasPrefix(x[2], res.owner \o <<"-">>)

\* C2: when Identify fails, the management call returns
\* ErrUnauthorizedAccess, Identify is the only call it made, and neither the
\* stores nor the generator change.
C2_DeniedTouchesNothing ==
    [][res'.auth = "failed" =>
          /\ res'.op \in {"AddThing", "UpdateThing", "ViewThing", "ListThings", "RemoveThing",
                          "CreateChannel", "UpdateChannel", "ViewChannel", "ListChannels",
                          "RemoveChannel", "Connect", "Disconnect"}
          /\ res'.err = ErrUnauthorizedAccess
          /\ res'.calls = <<"Identify">>
          /\ things' = things /\ channels' = channels /\ counter' = counter]_vars

\* A Connect was denied while a thing and a channel are stored.
C2_Witness ==
    /\ res.op = "Connect" /\ res.auth = "failed" /\ res.err = ErrUnauthorizedAccess
    /\ DOMAIN things # {} /\ DOMAIN channels # {}

\* C3: every channel that ViewChannel (One) or ListChannels (All) returns
\* under an owner's credential, for any id, offset and limit, was created by
\* that owner and carries that owner; this also when one owner's identity is
\* a prefix of the other's.
C3_ReadsReturnOwnChannels ==
    (res.op \in {"ViewChannel", "ListChannels"} /\ res.err = Nil) =>
        \A i \in DOMAIN res.outKeys :
            /\ Creator("channel", res.outKeys[i]) = res.owner
            /\ res.outChans[i].Owner = res.owner

\* C4: for offset >= 0 and limit > 0, All(owner, offset, limit) returns at
\* most limit channels, in ascending id order, and exactly the stored
\* channels of the owner whose creation rank lies in [offset, offset+limit);
\* otherwise it returns nothing.
C4_ListIsRankWindow ==
    \A o \in Owners, offset \in Offsets, limit \in Limits :
        \A s \in AllOrders(channels, o, offset, limit) :
            LET ids  == [i \in DOMAIN s |-> channels[s[i]].ID]
                mine == CreatedBy("channel", o)
            IN  IF offset < 0 \/ limit <= 0 THEN s = <<>>
                ELSE /\ Len(s) <= limit
                     /\ \A i, j \in DOMAIN ids : i < j => StrLess(ids[i], ids[j])
                     /\ {s[i] : i \in DOMAIN s} =
                            {key(o, mine[r + 1]) : r \in {r \in offset..(offset + limit - 1) :
                                                           /\ r + 1 \in DOMAIN mine
                                                           /\ key(o, mine[r + 1]) \in DOMAIN channels}}

\* The thing a successful Connect or Disconnect named, as stored now.
ActedThing == things[key(res.owner, res.thingID)]

\* C5: right after a Connect that succeeded, CanAccess on that channel with
\* the thing's device key returns the thing's id and no error.
C5_ConnectGrantsAccess ==
    (res.op = "Connect" /\ res.err = Nil) =>
        \A r \in CanAccessResults(channels, res.chanID, ActedThing.Key) :
            r.err = Nil /\ r.id = ActedThing.ID

\* C6: right after a Disconnect that succeeded, CanAccess on that channel
\* with the thing's device key fails with ErrNotFound.
C6_DisconnectRevokesWithNotFound ==
    (res.op = "Disconnect" /\ res.err = Nil /\ key(res.owner, res.thingID) \in DOMAIN things) =>
        \A r \in CanAccessResults(channels, res.chanID, ActedThing.Key) :
            r.err = ErrNotFound

\* C7: CanAccess(channel, key) returns an id without error only if a
\* successful Connect added a thing with that key and that id to the
\* channel and no Disconnect has removed it since.
C7_AccessOnlyForConnected ==
    \A c \in IdInputs(channels), k \in KeyInputs :
        \A r \in CanAccessResults(channels, c, k) :
            r.err = Nil =>
                \E l \in linked : HasSuffix(l[1], <<"-">> \o c) /\ l[2] = r.id /\ l[3] = k

\* C9: a thing id occurs at most once in a channel's connected list.
C9_NoDuplicateMembership ==
    \A x \in DOMAIN channels :
        \A i, j \in DOMAIN channels[x].Things :
            i # j => channels[x].Things[i].ID # channels[x].Things[j].ID

\* The owner's resource of the kind under key k exists and was created by
\* the owner.
Owns(kind, m, owner, id) ==
    key(owner, id) \in DOMAIN m /\ Creator(kind, key(owner, id)) = owner

\* C8: a Connect that passed authorization succeeds only if the channel and
\* the thing both exist under the caller; otherwise it fails with
\* ErrNotFound and changes nothing.
C8_ConnectNeedsBothEndpoints ==
    [][(res'.op = "Connect" /\ res'.auth = "ok") =>
          IF res'.err = Nil
          THEN /\ Owns("channel", channels, res'.owner, res'.chanID)
               /\ Owns("thing", things, res'.owner, res'.thingID)
          ELSE /\ res'.err = ErrNotFound
               /\ channels' = channels /\ things' = things]_vars

\* C10: when two concurrent Connect calls of one owner for the same
\* channel and two distinct things have both returned success, the
\* channel's connected list holds both things.
C10_NoLostConnect ==
    (/\ \A p \in Procs : procs[p].pc = "done" /\ procs[p].err = Nil
     /\ procs[1].owner = procs[2].owner /\ procs[1].chanID = procs[2].chanID
     /\ procs[1].thingID # procs[2].thingID) =>
        LET list == channels[key(procs[1].owner, procs[1].chanID)].Things IN
        \A p \in Procs : \E i \in DOMAIN list : list[i].ID = procs[p].thingID

\* C11: a call that is at a write of the channel map holds the store's lock,
\* so no two calls are at a write of the map at the same time.
C11_WritesHoldLock ==
    \A p \in Procs : procs[p].pc \in {"write", "delete"} => mu = p

\* C12: a Disconnect that passed authorization succeeds only for a thing
\* that a Connect made a member of a channel of the caller and no Disconnect
\* has removed since; otherwise it fails with ErrNotFound and every
\* channel keeps its connected list.
C12_DisconnectNonMemberFails ==
    [][(res'.op = "Disconnect" /\ res'.auth = "ok") =>
          IF res'.err = Nil
          THEN /\ Owns("channel", channels, res'.owner, res'.chanID)
               /\ \E l \in linked : l[1] = key(res'.owner, res'.chanID) /\ l[2] = res'.thingID
          ELSE /\ res'.err = ErrNotFound
               /\ channels' = channels]_vars

\* C13: an UpdateChannel that passed authorization either fails with
\* ErrNotFound and changes nothing, or succeeds on a channel the caller
\* created: it adds no entry and changes no channel of another owner.
C13_ForgedUpdateFails ==
    [][(res'.op = "UpdateChannel" /\ res'.auth = "ok") =>
          IF res'.err = Nil
          THEN /\ DOMAIN channels' = DOMAIN channels
               /\ \A k \in DOMAIN channels :
                     channels'[k] # channels[k] => Creator("channel", k) = res'.owner
          ELSE /\ res'.err = ErrNotFound
               /\ channels' = channels]_vars

\* C14: a RemoveChannel that passed authorization and found nothing to
\* remove under the caller's key returns ErrNotFound.
C14_RemoveMissingReportsNotFound ==
    [][(res'.op = "RemoveChannel" /\ res'.auth = "ok" /\ DOMAIN channels' = DOMAIN channels) =>
          res'.err = ErrNotFound]_vars

\* C15: every stored channel carries the owner and the identifier it was
\* created with.
C15_OwnerAndIdImmutable ==
    \A k \in DOMAIN channels :
        \A i \in DOMAIN created :
            (created[i].kind = "channel" /\ key(created[i].owner, created[i].id) = k) =>
                channels[k].Owner = created[i].owner /\ channels[k].ID = created[i].id

\* C16: every stored thing carries the device key AddThing gave it.
C16_KeyImmutable ==
    \A k \in DOMAIN things :
        \A i \in DOMAIN created :
            (created[i].kind = "thing" /\ key(created[i].owner, created[i].id) = k) =>
                things[k].Key = created[i].key

\* C17: CanAccess never calls Identify: HasThing is the one call it makes,
\* what it returns is what the scan of the channel store gives for its
\* arguments, whatever the oracle would answer, and it changes no store.
C17_CanAccessIgnoresOracle ==
    [][res'.op = "CanAccess" =>
          /\ res'.auth = "none" /\ res'.calls = <<"channels.HasThing">>
          /\ \E k \in KeyInputs, c \in IdInputs(channels) :
                [err |-> res'.err, id |-> res'.outId] \in CanAccessResults(channels, c, k)
          /\ things' = things /\ channels' = channels /\ counter' = counter]_vars

\* CanAccess granted a connected thing access.
C17_Witness ==
    /\ res.op = "CanAccess" /\ res.err = Nil /\ res.outId # Empty
    /\ \E l \in linked : l[2] = res.outId

\* C18: an UpdateChannel leaves the connected list of every channel as it
\* was before the call.
C18_UpdateKeepsConnected ==
    [][res'.op = "UpdateChannel" =>
          \A k \in DOMAIN channels \cap DOMAIN channels' :
              channels'[k].Things = channels[k].Things]_vars

\* C19: right after a RemoveThing that succeeded, CanAccess fails on every
\* channel for the device key of every thing that was created and is no
\* longer in the thing store.
C19_RemoveThingRevokesAccess ==
    (res.op = "RemoveThing" /\ res.err = Nil) =>
        \A i \in DOMAIN created :
            (created[i].kind = "thing" /\ key(created[i].owner, created[i].id) \notin DOMAIN things) =>
                \A c \in IdInputs(channels) :
                    \A r \in CanAccessResults(channels, c, created[i].key) : r.err # Nil

\* C20: a RemoveChannel, Connect or Disconnect that passed authorization
\* leaves every channel created by another owner stored and unchanged.
C20_MutationsStayWithinOwner ==
    [][(res'.op \in {"RemoveChannel", "Connect", "Disconnect"} /\ res'.auth = "ok") =>
          \A k \in DOMAIN channels :
              Creator("channel", k) # res'.owner =>
                  k \in DOMAIN channels' /\ channels'[k] = channels[k]]_vars

====
